---- MODULE Spec2Model ----
(***************************************************************************)
(* Model of the Learning-Dashboard repository:                             *)
(*   src/data/macro_data.py  the indicator functions over the FRED client  *)
(*   src/ui/dashboard.py     the Tk window, its worker thread and the      *)
(*                           callbacks it schedules on the main loop       *)
(*                                                                         *)
(* Numbers.  A float is a binary64 value, kept exactly: a sign, a natural  *)
(* mantissa and a binary exponent; every operation rounds as IEEE-754      *)
(* does.  Infinities, not-a-number and Python's None are values of their   *)
(* own kinds.                                                              *)
(* Text.  A string is the sequence of its characters, so that formatting   *)
(* is computed digit by digit.                                             *)
(* Series.  A series is a sequence of observations; an observation is      *)
(* <<v>> for the value v and <<>> for a missing value (pandas' NaN).       *)
(***************************************************************************)
EXTENDS Integers, Sequences, FiniteSets, TLC

\* ------------------------------------------------------------------ bounds

\* Observations are drawn from -1 .. MaxObs.
MaxObs == 3
\* Longest series of the exhaustive family (every sequence up to this length).
MaxShort == 3
\* Longest series of the two-series family (yield curve: pairs of series).
MaxTiny == 2
\* Longest series of the monthly family (year-over-year needs 13 and more).
MaxLong == 14

\* ------------------------------------------------------- natural numbers

\* The mantissa of a binary64 float has 53 bits and its powers have more, so
\* naturals are kept as sequences of limbs in base 2^15, lowest limb first,
\* without high zero limbs (the empty sequence is 0).
Base == 2 ^ 15

Max(a, b) == IF a >= b THEN a ELSE b

Abs(x) == IF x < 0 THEN -x ELSE x

\* The number of bits of a natural number.
RECURSIVE IntBitLen(_)
IntBitLen(n) == IF n = 0 THEN 0 ELSE 1 + IntBitLen(n \div 2)

\* The bits of a limb.
LimbBits == IntBitLen(Base - 1)

RECURSIVE BNorm(_)
BNorm(a) ==
    IF a = <<>> THEN a
    ELSE IF a[Len(a)] = 0 THEN BNorm(SubSeq(a, 1, Len(a) - 1)) ELSE a

RECURSIVE BFromInt(_)
BFromInt(n) == IF n = 0 THEN <<>> ELSE <<n % Base>> \o BFromInt(n \div Base)

Limb(a, i) == IF i <= Len(a) THEN a[i] ELSE 0

RECURSIVE BAddFrom(_, _, _, _)
BAddFrom(a, b, i, carry) ==
    IF i > Len(a) /\ i > Len(b)
    THEN (IF carry = 0 THEN <<>> ELSE <<carry>>)
    ELSE LET t == Limb(a, i) + Limb(b, i) + carry
         IN  <<t % Base>> \o BAddFrom(a, b, i + 1, t \div Base)

BAdd(a, b) == BAddFrom(a, b, 1, 0)

\* a - b for a >= b.
RECURSIVE BSubFrom(_, _, _, _)
BSubFrom(a, b, i, borrow) ==
    IF i > Len(a) THEN <<>>
    ELSE LET t == Limb(a, i) - Limb(b, i) - borrow
         IN  IF t < 0 THEN <<t + Base>> \o BSubFrom(a, b, i + 1, 1)
             ELSE <<t>> \o BSubFrom(a, b, i + 1, 0)

BSub(a, b) == BNorm(BSubFrom(a, b, 1, 0))

\* -1, 0 or 1 as a < b, a = b or a > b.
RECURSIVE BCmpFrom(_, _, _)
BCmpFrom(a, b, i) ==
    IF i = 0 THEN 0
    ELSE IF a[i] < b[i] THEN -1
    ELSE IF a[i] > b[i] THEN 1
    ELSE BCmpFrom(a, b, i - 1)

BCmp(a, b) ==
    IF Len(a) < Len(b) THEN -1
    ELSE IF Len(a) > Len(b) THEN 1
    ELSE BCmpFrom(a, b, Len(a))

\* a * k for 0 <= k <= Base.
RECURSIVE BMulSmallFrom(_, _, _, _)
BMulSmallFrom(a, k, i, carry) ==
    IF i > Len(a) THEN (IF carry = 0 THEN <<>> ELSE <<carry>>)
    ELSE LET t == a[i] * k + carry
         IN  <<t % Base>> \o BMulSmallFrom(a, k, i + 1, t \div Base)

BMulSmall(a, k) == IF k = 0 THEN <<>> ELSE BMulSmallFrom(a, k, 1, 0)

\* a * Base^n
BShiftLimbs(a, n) == IF a = <<>> THEN a ELSE [i \in 1..n |-> 0] \o a

RECURSIVE BMulFrom(_, _, _)
BMulFrom(a, b, i) ==
    IF i > Len(b) THEN <<>>
    ELSE BAdd(BShiftLimbs(BMulSmall(a, b[i]), i - 1), BMulFrom(a, b, i + 1))

BMul(a, b) == BMulFrom(a, b, 1)

\* The quotient and the remainder of a by d, 1 <= d <= Base: <<q, r>> with
\* the limbs of q from the highest of a down to its i-th.
RECURSIVE BDivSmallFrom(_, _, _, _)
BDivSmallFrom(a, d, i, rem) ==
    IF i = 0 THEN <<<<>>, rem>>
    ELSE LET t == rem * Base + a[i]
             rest == BDivSmallFrom(a, d, i - 1, t % d)
         IN  <<Append(rest[1], t \div d), rest[2]>>

BDivModSmall(a, d) ==
    LET qr == BDivSmallFrom(a, d, Len(a), 0)
    IN  <<BNorm(qr[1]), qr[2]>>

\* a * 2^k
BShl(a, k) == BShiftLimbs(BMulSmall(a, 2 ^ (k % LimbBits)), k \div LimbBits)

\* floor(a / 2^k)
BShr(a, k) ==
    LET n == k \div LimbBits
    IN  IF n >= Len(a) THEN <<>>
        ELSE BDivModSmall(SubSeq(a, n + 1, Len(a)), 2 ^ (k % LimbBits))[1]

\* The i-th bit of a (i = 0: the lowest).
BBit(a, i) == (Limb(a, i \div LimbBits + 1) \div 2 ^ (i % LimbBits)) % 2

\* Whether the k lowest bits of a are all zero.
BLowZero(a, k) ==
    /\ \A i \in 1..(k \div LimbBits) : Limb(a, i) = 0
    /\ Limb(a, k \div LimbBits + 1) % 2 ^ (k % LimbBits) = 0

BBitLen(a) == IF a = <<>> THEN 0 ELSE LimbBits * (Len(a) - 1) + IntBitLen(a[Len(a)])

\* The number of zero bits below the lowest one bit of a # 0.
RECURSIVE BTrailingZeros(_, _)
BTrailingZeros(a, i) == IF BBit(a, i) = 1 THEN i ELSE BTrailingZeros(a, i + 1)

\* The quotient and the remainder of a by b # 0, bit by bit from the highest
\* bit of a: <<q, r>>.
RECURSIVE BDivBits(_, _, _, _, _)
BDivBits(a, b, i, q, r) ==
    IF i < 0 THEN <<q, r>>
    ELSE LET r2 == BAdd(BMulSmall(r, 2), BFromInt(BBit(a, i)))
         IN  IF BCmp(r2, b) >= 0
             THEN BDivBits(a, b, i - 1, BAdd(BMulSmall(q, 2), <<1>>), BSub(r2, b))
             ELSE BDivBits(a, b, i - 1, BMulSmall(q, 2), r2)

BDivMod(a, b) ==
    IF Len(b) = 1 THEN LET qr == BDivModSmall(a, b[1]) IN <<qr[1], BFromInt(qr[2])>>
    ELSE BDivBits(a, b, BBitLen(a) - 1, <<>>, <<>>)

\* ------------------------------------------------------------- arithmetic

\* A value is a record [k, s, m, e].  k = "num" is the binary64 float
\* s * m * 2^e with the sign s (1 or -1) and the natural m, odd unless the
\* float is a zero (m = 0, e = 0); k = "inf" is the infinity of sign s,
\* k = "nan" is not-a-number and k = "None" is Python's None.

\* Python's None.
None == [k |-> "None", s |-> 1, m |-> <<>>, e |-> 0]

NaNf == [k |-> "nan", s |-> 1, m |-> <<>>, e |-> 0]

Inf(s) == [k |-> "inf", s |-> s, m |-> <<>>, e |-> 0]

Zero(s) == [k |-> "num", s |-> s, m |-> <<>>, e |-> 0]

\* s * m * 2^e with the zero bits at the low end of m moved into e.
Canonical(s, m, e) ==
    IF m = <<>> THEN Zero(s)
    ELSE LET tz == BTrailingZeros(m, 0)
         IN  [k |-> "num", s |-> s, m |-> BShr(m, tz), e |-> e + tz]

\* The binary64 float next to s * (m + f) * 2^e, where 0 < f < 1 if sticky
\* and f = 0 otherwise: 53 bits of mantissa (fewer below 2^-1022), an infinity
\* from 2^1024 on.  The mode says which of the two floats around a value that
\* is no float: "even" the nearest one (ties to the even mantissa), "below"
\* the one of smaller magnitude, "above" the one of larger magnitude.
RoundTo(s, m, e, sticky, mode) ==
    IF m = <<>> THEN Zero(s)
    ELSE LET shift == Max(BBitLen(m) - 53, (-1074) - e)
         IN  IF shift <= 0
             THEN (IF BBitLen(m) + e > 1024 THEN Inf(s) ELSE Canonical(s, m, e))
             ELSE LET q == BShr(m, shift)
                      half == BBit(m, shift - 1) = 1
                      exact == BLowZero(m, shift - 1) /\ ~sticky
                      inexact == ~BLowZero(m, shift) \/ sticky
                      up == IF mode = "even" THEN half /\ (~exact \/ BBit(q, 0) = 1)
                            ELSE mode = "above" /\ inexact
                      r == IF up THEN BAdd(q, <<1>>) ELSE q
                  IN  IF BBitLen(r) + e + shift > 1024 THEN Inf(s)
                      ELSE Canonical(s, r, e + shift)

\* The rounding of IEEE-754 arithmetic: to the nearest float.
Round64(s, m, e, sticky) == RoundTo(s, m, e, sticky, "even")

\* The float of an integer.
FromInt(n) == Round64(IF n < 0 THEN -1 ELSE 1, BFromInt(Abs(n)), 0, FALSE)

\* float(x) of a series element: the observation <<v>> as a float.
Float(o) == FromInt(o[1])

IsFinite(x) == x.k = "num"

IsZero(x) == x.k = "num" /\ x.m = <<>>

\* IEEE-754 binary operations as numpy.float64 computes them: every result is
\* rounded to binary64, and a division by zero is a warning, not an
\* exception, and yields an infinity or a nan.
FAdd(x, y) ==
    IF x.k = "nan" \/ y.k = "nan" THEN NaNf
    ELSE IF x.k = "inf" /\ y.k = "inf" THEN (IF x.s = y.s THEN x ELSE NaNf)
    ELSE IF x.k = "inf" THEN x
    ELSE IF y.k = "inf" THEN y
    ELSE IF IsZero(x) /\ IsZero(y) THEN Zero(IF x.s = -1 /\ y.s = -1 THEN -1 ELSE 1)
    ELSE IF IsZero(x) THEN y
    ELSE IF IsZero(y) THEN x
    ELSE LET e0 == IF x.e <= y.e THEN x.e ELSE y.e
             a == BShl(x.m, x.e - e0)
             b == BShl(y.m, y.e - e0)
             c == BCmp(a, b)
         IN  IF x.s = y.s THEN Round64(x.s, BAdd(a, b), e0, FALSE)
             ELSE IF c = 0 THEN Zero(1)
             ELSE IF c > 0 THEN Round64(x.s, BSub(a, b), e0, FALSE)
             ELSE Round64(y.s, BSub(b, a), e0, FALSE)

FNeg(x) == IF x.k \in {"num", "inf"} THEN [x EXCEPT !.s = -x.s] ELSE x

FSub(x, y) == FAdd(x, FNeg(y))

FMul(x, y) ==
    IF x.k = "nan" \/ y.k = "nan" THEN NaNf
    ELSE IF x.k = "inf" \/ y.k = "inf"
         THEN (IF IsZero(x) \/ IsZero(y) THEN NaNf ELSE Inf(x.s * y.s))
    ELSE Round64(x.s * y.s, BMul(x.m, y.m), x.e + y.e, FALSE)

FDiv(x, y) ==
    IF x.k = "nan" \/ y.k = "nan" THEN NaNf
    ELSE IF x.k = "inf" /\ y.k = "inf" THEN NaNf
    ELSE IF x.k = "inf" THEN Inf(x.s * y.s)
    ELSE IF y.k = "inf" THEN Zero(x.s * y.s)
    ELSE IF IsZero(y) THEN (IF IsZero(x) THEN NaNf ELSE Inf(x.s * y.s))
    ELSE IF IsZero(x) THEN Zero(x.s * y.s)
    ELSE LET k == Max(0, 56 + BBitLen(y.m) - BBitLen(x.m))
             qr == BDivMod(BShl(x.m, k), y.m)
         IN  Round64(x.s * y.s, qr[1], x.e - y.e - k, qr[2] # <<>>)

\* The C library's pow is not correctly rounded: where x^4 is no float it
\* returns one of the two floats around it, which one depends on the library
\* and on x.
PowRoundings == {"below", "above"}

\* A call that does not come to pow.
NoPow == "none"

\* x ** 4: the C library's pow, the fourth power rounded as pw says.
FPow4(x, pw) ==
    IF x.k = "nan" THEN NaNf
    ELSE IF x.k = "inf" THEN Inf(1)
    ELSE LET sq == BMul(x.m, x.m)
         IN  RoundTo(1, BMul(sq, sq), 4 * x.e, FALSE, pw)

One == FromInt(1)

Hundred == FromInt(100)

Thousand == FromInt(1000)

\* ------------------------------------------------------------------- text

Digit(i) == <<"0", "1", "2", "3", "4", "5", "6", "7", "8", "9">>[i + 1]

Digits == {Digit(i) : i \in 0..9}

\* The decimal digits of a natural number.
RECURSIVE Decimal(_)
Decimal(a) ==
    LET qr == BDivModSmall(a, 10)
    IN  IF qr[1] = <<>> THEN <<Digit(qr[2])>> ELSE Decimal(qr[1]) \o <<Digit(qr[2])>>

\* The nearest natural to m * 2^e, ties to the even one.
RoundHalfEven(m, e) ==
    IF e >= 0 THEN BShl(m, e)
    ELSE LET q == BShr(m, -e)
             half == BBit(m, (-e) - 1) = 1
             exact == BLowZero(m, (-e) - 1)
         IN  IF half /\ (~exact \/ BBit(q, 0) = 1) THEN BAdd(q, <<1>>) ELSE q

\* f"{value:.2f}" of a float: the binary value of the float rounded to
\* hundredths, ties (which are then exact in binary) to the even hundredth.
Format2f(x) ==
    IF x.k = "nan" THEN <<"n", "a", "n">>
    ELSE IF x.k = "inf"
         THEN (IF x.s < 0 THEN <<"-">> ELSE <<>>) \o <<"i", "n", "f">>
    ELSE LET h == RoundHalfEven(BMulSmall(x.m, 100), x.e)
             qr == BDivModSmall(h, 100)
         IN  (IF x.s < 0 THEN <<"-">> ELSE <<>>)
             \o Decimal(qr[1])
             \o <<".", Digit(qr[2] \div 10), Digit(qr[2] % 10)>>

ErrorText == <<"E", "r", "r", "o", "r">>

PlaceholderText == <<".", ".", ".">>

\* ----------------------------------------------------------------- series

\* A missing observation.
NaN == <<>>

Obs(v) == <<v>>

\* Series.dropna()
dropna(s) == SelectSeq(s, LAMBDA o : o # NaN)

\* What fred.get_series(series_id) does: it raises, or it returns a series.
Raises == [ok |-> FALSE, s |-> <<>>]

Returns(s) == [ok |-> TRUE, s |-> s]

\* A function call ends by returning a value or with an exception.
Return(v) == [exc |-> FALSE, val |-> v]

Raised == [exc |-> TRUE, val |-> None]

VARIABLES
    fred,        \* macro_data.fred: "Fred" (a configured client) or "None"
    entry,       \* which program runs: "dashboard", "snapshot" or "call"
    fnName,      \* the indicator function called directly
    fnGet,       \* what fred.get_series answers during that call
    fnPow,       \* how the C library's pow rounds during that call
    fnRet,       \* how the call ended
    fnDone,      \* whether the call has ended
    pcMain,      \* the main thread: in __init__, between __init__ and mainloop, in mainloop
    row_ids,     \* MacroDashboard.row_ids: indicator name -> row id
    tree,        \* the Treeview's rows: row id -> <<Indicator, Value>>
    pcWorker,    \* the worker thread: where it is in an iteration of its loop
    wi,          \* the worker's loop: how many iterations it has completed
    answers,     \* the worker's current call of func(): what get_series answered so far
    display,     \* the worker's local variable display
    afterQueue,  \* callbacks scheduled with after(0, ...) and not yet run
    fetched,     \* history: the function and the client's answers of each call of the worker
    scheduled,   \* history: every callback the worker scheduled, in order
    writes,      \* history: every write to the Treeview, with the writing thread
    snapIn,      \* history: what get_series answered during get_macro_snapshot
    snapshot     \* how get_macro_snapshot ended

vars == <<fred, entry, fnName, fnGet, fnPow, fnRet, fnDone, pcMain, row_ids, tree, pcWorker,
          wi, answers, display, afterQueue, fetched, scheduled, writes, snapIn,
          snapshot>>

\* ---------------------------------------------------- macro_data: helpers

\* try: ... except Exception: return None
NoCatch(r) == r

Catch(r) == IF r.exc THEN Return(None) ELSE r

\* The body of _safe_latest's try block.
_safe_latest_try(series_id, get) ==
    IF ~get[series_id].ok THEN Raised
    ELSE LET s == dropna(get[series_id].s)
         IN  IF Len(s) < 1 THEN Raised      \* iloc[-1] of an empty series
             ELSE Return(Float(s[Len(s)]))

_safe_latest(series_id, get) ==
    IF fred = "None" THEN Return(None) ELSE Catch(_safe_latest_try(series_id, get))

\* _safe_yoy with iloc[-12] in place of iloc[-13].
_safe_yoy_try_lag11(series_id, get) ==
    IF ~get[series_id].ok THEN Raised
    ELSE LET s == dropna(get[series_id].s)
             n == Len(s)
         IN  IF n < 13 THEN Return(None)
             ELSE Return(FMul(FSub(FDiv(Float(s[n]), Float(s[n - 11])), One), Hundred))

\* The body of _safe_yoy's try block.
_safe_yoy_try(series_id, get) ==
    IF ~get[series_id].ok THEN Raised
    ELSE LET s == dropna(get[series_id].s)
             n == Len(s)
         IN  IF n < 13 THEN Return(None)
             ELSE Return(FMul(FSub(FDiv(Float(s[n]), Float(s[n - 12])), One), Hundred))

_safe_yoy(series_id, get) ==
    IF fred = "None" THEN Return(None) ELSE Catch(_safe_yoy_try(series_id, get))

\* _safe_qoq_annualized compounding over two quarters instead of four.
_safe_qoq_annualized_try_sq(series_id, get, pw) ==
    IF ~get[series_id].ok THEN Raised
    ELSE LET s == dropna(get[series_id].s)
             n == Len(s)
         IN  IF n < 2 THEN Return(None)
             ELSE LET qoq == FSub(FDiv(Float(s[n]), Float(s[n - 1])), One)
                      g == FAdd(One, qoq)
                  IN  Return(FMul(FSub(FMul(g, g), One), Hundred))

\* The body of _safe_qoq_annualized's try block.
_safe_qoq_annualized_try(series_id, get, pw) ==
    IF ~get[series_id].ok THEN Raised
    ELSE LET s == dropna(get[series_id].s)
             n == Len(s)
         IN  IF n < 2 THEN Return(None)
             ELSE LET qoq == FSub(FDiv(Float(s[n]), Float(s[n - 1])), One)
                  IN  Return(FMul(FSub(FPow4(FAdd(One, qoq), pw), One), Hundred))

_safe_qoq_annualized(series_id, get, pw) ==
    IF fred = "None" THEN Return(None)
    ELSE Catch(_safe_qoq_annualized_try(series_id, get, pw))

\* ------------------------------------------------- macro_data: indicators

real_gdp_growth(get, pw) == _safe_qoq_annualized("GDPC1", get, pw)

nominal_gdp_growth(get, pw) == _safe_qoq_annualized("GDP", get, pw)

unemployment_rate(get) == _safe_latest("UNRATE", get)

prime_age_employment_ratio(get) == _safe_latest("LNS12300060", get)

\* The body of payroll_employment_change's try block.
payroll_employment_change_try(get) ==
    IF ~get["PAYEMS"].ok THEN Raised
    ELSE LET s == dropna(get["PAYEMS"].s)
             n == Len(s)
         IN  IF n < 2 THEN Raised           \* iloc[-1] or iloc[-2] out of range
             ELSE Return(FDiv(FSub(Float(s[n]), Float(s[n - 1])), Thousand))

payroll_employment_change(get) ==
    IF fred = "None" THEN Return(None) ELSE Catch(payroll_employment_change_try(get))

core_pce_yoy(get) == _safe_yoy("PCEPILFE", get)

wage_growth_yoy(get) == _safe_yoy("CES0500000003", get)

\* The body of yield_curve_3m_10y's try block.
yield_curve_3m_10y_try(get) ==
    IF ~get["DGS10"].ok THEN Raised
    ELSE LET s10 == dropna(get["DGS10"].s)
         IN  IF Len(s10) < 1 THEN Raised
             ELSE IF ~get["DTB3"].ok THEN Raised
             ELSE LET s3 == dropna(get["DTB3"].s)
                  IN  IF Len(s3) < 1 THEN Raised
                      ELSE LET t10y == Float(s10[Len(s10)])
                               t3m == Float(s3[Len(s3)])
                           IN  Return(FSub(t10y, t3m))

yield_curve_3m_10y(get) ==
    IF fred = "None" THEN Return(None) ELSE Catch(yield_curve_3m_10y_try(get))

credit_spread_high_yield(get) == _safe_latest("BAMLH0A0HYM2", get)

financial_conditions_index(get) == _safe_latest("NFCI", get)

\* Calling an indicator function by its name; pw is how the C library's pow
\* rounds during the call.
Call(func, get, pw) ==
    CASE func = "real_gdp_growth" -> real_gdp_growth(get, pw)
      [] func = "nominal_gdp_growth" -> nominal_gdp_growth(get, pw)
      [] func = "unemployment_rate" -> unemployment_rate(get)
      [] func = "prime_age_employment_ratio" -> prime_age_employment_ratio(get)
      [] func = "payroll_employment_change" -> payroll_employment_change(get)
      [] func = "core_pce_yoy" -> core_pce_yoy(get)
      [] func = "wage_growth_yoy" -> wage_growth_yoy(get)
      [] func = "yield_curve_3m_10y" -> yield_curve_3m_10y(get)
      [] func = "credit_spread_high_yield" -> credit_spread_high_yield(get)
      [] func = "financial_conditions_index" -> financial_conditions_index(get)

\* The series each indicator function asks the client for, in order.
SeriesOf(func) ==
    CASE func = "real_gdp_growth" -> <<"GDPC1">>
      [] func = "nominal_gdp_growth" -> <<"GDP">>
      [] func = "unemployment_rate" -> <<"UNRATE">>
      [] func = "prime_age_employment_ratio" -> <<"LNS12300060">>
      [] func = "payroll_employment_change" -> <<"PAYEMS">>
      [] func = "core_pce_yoy" -> <<"PCEPILFE">>
      [] func = "wage_growth_yoy" -> <<"CES0500000003">>
      [] func = "yield_curve_3m_10y" -> <<"DGS10", "DTB3">>
      [] func = "credit_spread_high_yield" -> <<"BAMLH0A0HYM2">>
      [] func = "financial_conditions_index" -> <<"NFCI">>

Functions ==
    {"real_gdp_growth", "nominal_gdp_growth", "unemployment_rate",
     "prime_age_employment_ratio", "payroll_employment_change", "core_pce_yoy",
     "wage_growth_yoy", "yield_curve_3m_10y", "credit_spread_high_yield",
     "financial_conditions_index"}

YoyFunctions == {"core_pce_yoy", "wage_growth_yoy"}

QoqFunctions == {"real_gdp_growth", "nominal_gdp_growth"}

Range(f) == {f[x] : x \in DOMAIN f}

\* ------------------------------------------------------------ input sets

Vals == {-1} \cup (0..MaxObs)

ObsSet == {NaN} \cup {Obs(v) : v \in Vals}

SeqsUpTo(S, n) == UNION {[1..m -> S] : m \in 0..n}

\* Every series of at most MaxShort observations.
ShortSeries == SeqsUpTo(ObsSet, MaxShort)

TinySeries == SeqsUpTo(ObsSet, MaxTiny)

\* n observations equal to w, but for v at position p and a missing
\* observation at position m (m = 0: none missing).
Spike(n, p, m, v, w) ==
    [i \in 1..n |-> IF i = m THEN NaN ELSE IF i = p THEN Obs(v) ELSE Obs(w)]

\* Monthly series of up to MaxLong observations.
LongSeries ==
    {Spike(n, p, m, v, w) : n \in 0..MaxLong, p \in 1..MaxLong, m \in 0..MaxLong,
                            v \in Vals, w \in Vals}

Answers(S) == {Raises} \cup {Returns(s) : s \in S}

\* The client is not asked at all (fred is None).
Unasked == <<>>

\* What the client may answer while func is called directly.
CallInputs(func) ==
    IF fred = "None" THEN {Unasked}
    ELSE IF func = "yield_curve_3m_10y"
         THEN [{"DGS10", "DTB3"} -> Answers(TinySeries)]
    ELSE IF func \in YoyFunctions
         THEN [{SeriesOf(func)[1]} -> Answers(LongSeries \cup TinySeries)]
    ELSE [{SeriesOf(func)[1]} -> Answers(ShortSeries)]

\* MaxLong observations: the last one is last, the others are base.
Rising(base, last) == Spike(MaxLong, MaxLong, 0, last, base)

\* What the client may answer while the dashboard or the snapshot runs: a
\* failure or a rising series (for the payrolls a rise of 5 thousands, 0.005
\* millions); for the first indicator also a series rising from zero.
RunAnswers(func) ==
    {Raises}
        \cup (IF func = "payroll_employment_change"
              THEN {Returns(Rising(1, 6))} ELSE {Returns(Rising(1, 2))})
        \cup (IF func = "real_gdp_growth"
              THEN {Returns(Rising(0, 2))} ELSE {})

RunInputs(func) ==
    IF fred = "None" THEN {Unasked}
    ELSE [Range(SeriesOf(func)) -> RunAnswers(func)]

\* How pow may round during a call of func: only the quarterly growth
\* functions, with a client to ask, come to call it.
PowInputs(func) ==
    IF fred = "Fred" /\ func \in QoqFunctions THEN PowRoundings ELSE {NoPow}

\* Whether a call of func under these answers meets a failure: the client is
\* not configured, a fetch raises, or a series has too few observations for
\* the indices the function reads.
FetchFails(func, get) ==
    \/ fred = "None"
    \/ \E id \in Range(SeriesOf(func)) :
          \/ ~get[id].ok
          \/ Len(dropna(get[id].s)) < (IF func = "payroll_employment_change" THEN 2 ELSE 1)

\* ----------------------------------------------------- direct calls (Fn)

Pending == [exc |-> FALSE, val |-> [k |-> "pending", s |-> 1, m |-> <<>>, e |-> 0]]

\* The variables of the dashboard and of the snapshot, at rest.
RunIdle ==
    /\ pcMain = "idle"
    /\ row_ids = <<>>
    /\ tree = <<>>
    /\ pcWorker = "unstarted"
    /\ wi = 0
    /\ answers = <<>>
    /\ display = <<>>
    /\ afterQueue = <<>>
    /\ fetched = <<>>
    /\ scheduled = <<>>
    /\ writes = <<>>
    /\ snapIn = <<>>
    /\ snapshot = [state |-> "pending", dict |-> <<>>]

FnIdle ==
    /\ fnName = "none"
    /\ fnGet = Unasked
    /\ fnPow = NoPow
    /\ fnRet = Pending
    /\ fnDone = FALSE

FnInit ==
    /\ fred \in {"Fred", "None"}
    /\ entry = "call"
    /\ fnName \in Functions
    /\ fnGet \in CallInputs(fnName)
    /\ fnPow \in PowInputs(fnName)
    /\ fnRet = Pending
    /\ fnDone = FALSE
    /\ RunIdle

\* One call of an indicator function, from its first line to its return.
CallIndicator ==
    /\ entry = "call"
    /\ ~fnDone
    /\ fnRet' = Call(fnName, fnGet, fnPow)
    /\ fnDone' = TRUE
    /\ UNCHANGED <<fred, entry, fnName, fnGet, fnPow, pcMain, row_ids, tree, pcWorker, wi,
                   answers, display, afterQueue, fetched, scheduled, writes, snapIn,
                   snapshot>>

FnNext == CallIndicator

FnSpec == FnInit /\ [][FnNext]_vars

\* -------------------------------------------------------------- dashboard

\* MacroDashboard.indicators: the (label, function) pairs of populate_table.
\* (The label of the yield curve is written here with a plain hyphen.)
indicators ==
    << [name |-> "Real GDP Growth (%)", func |-> "real_gdp_growth"],
       [name |-> "Nominal GDP Growth (%)", func |-> "nominal_gdp_growth"],
       [name |-> "Unemployment Rate (%)", func |-> "unemployment_rate"],
       [name |-> "Prime-Age E/P Ratio (%)", func |-> "prime_age_employment_ratio"],
       [name |-> "Payroll Change (k)", func |-> "payroll_employment_change"],
       [name |-> "Core PCE YoY (%)", func |-> "core_pce_yoy"],
       [name |-> "Wage Growth YoY (%)", func |-> "wage_growth_yoy"],
       [name |-> "Yield Curve 3m-10y", func |-> "yield_curve_3m_10y"],
       [name |-> "High-Yield Spread", func |-> "credit_spread_high_yield"],
       [name |-> "Financial Conditions Index", func |-> "financial_conditions_index"] >>

Names == {indicators[i].name : i \in DOMAIN indicators}

\* The last position of a name in the indicator list: in a loop of
\* assignments row_ids[name] = row_id the last one stays.
LastIndex(name) ==
    CHOOSE i \in DOMAIN indicators :
        /\ indicators[i].name = name
        /\ \A j \in DOMAIN indicators : indicators[j].name = name => j <= i

\* populate_table: one row per indicator, in list order, with the placeholder
\* value; the row's id is remembered under the indicator's name.
populate_table ==
    /\ entry = "dashboard"
    /\ pcMain = "populate_table"
    /\ tree' = [i \in DOMAIN indicators |-> <<indicators[i].name, PlaceholderText>>]
    /\ row_ids' = [n \in Names |-> LastIndex(n)]
    /\ writes' = writes \o [i \in DOMAIN indicators |->
                               [thread |-> "main", row |-> i, op |-> "insert"]]
    /\ pcMain' = "load_macro_data_async"
    /\ UNCHANGED <<fred, entry, fnName, fnGet, fnPow, fnRet, fnDone, pcWorker, wi, answers,
                   display, afterQueue, fetched, scheduled, snapIn, snapshot>>

\* load_macro_data_async starts the worker thread, and __init__ returns.
load_macro_data_async ==
    /\ entry = "dashboard"
    /\ pcMain = "load_macro_data_async"
    /\ pcMain' = "init_returned"
    /\ pcWorker' = "func"
    /\ UNCHANGED <<fred, entry, fnName, fnGet, fnPow, fnRet, fnDone, row_ids, tree, wi,
                   answers, display, afterQueue, fetched, scheduled, writes, snapIn,
                   snapshot>>

\* app.mainloop(): the main thread enters the main loop.
mainloop ==
    /\ entry = "dashboard"
    /\ pcMain = "init_returned"
    /\ pcMain' = "mainloop"
    /\ UNCHANGED <<fred, entry, fnName, fnGet, fnPow, fnRet, fnDone, row_ids, tree, pcWorker,
                   wi, answers, display, afterQueue, fetched, scheduled, writes,
                   snapIn, snapshot>>

\* Whether the call of func in progress goes on to ask the client for its next
\* series: the client is configured, a series is left to ask for, and the
\* answers so far were series with an observation (else the call has raised).
NeedsFetch(func, got) ==
    /\ fred # "None"
    /\ Len(got) < Len(SeriesOf(func))
    /\ \A j \in DOMAIN got : got[j].ok /\ Len(dropna(got[j].s)) >= 1

\* The client's answers of a call, by series id; a series the call did not
\* come to ask for has none (it is never read).
AsGet(func, got) ==
    [id \in Range(SeriesOf(func)) |->
        LET j == CHOOSE j \in DOMAIN SeriesOf(func) : SeriesOf(func)[j] = id
        IN  IF j <= Len(got) THEN got[j] ELSE Raises]

\* The worker, inside func(): one fred.get_series call is answered.
get_series ==
    /\ entry = "dashboard"
    /\ pcWorker = "func"
    /\ NeedsFetch(indicators[wi + 1].func, answers)
    /\ \E ans \in RunAnswers(indicators[wi + 1].func) : answers' = Append(answers, ans)
    /\ UNCHANGED <<fred, entry, fnName, fnGet, fnPow, fnRet, fnDone, pcMain, row_ids, tree,
                   pcWorker, wi, display, afterQueue, fetched, scheduled, writes,
                   snapIn, snapshot>>

\* The text _load_macro_data makes of a call's outcome:
\*   try: value = func(); display = f"{value:.2f}" if value is not None else "Error"
\*   except Exception: display = "Error"
Display(r) ==
    IF r.exc THEN ErrorText
    ELSE IF r.val # None THEN Format2f(r.val) ELSE ErrorText

\* The worker: func() returns (or raises) and the display text is made.
call_func ==
    /\ entry = "dashboard"
    /\ pcWorker = "func"
    /\ ~NeedsFetch(indicators[wi + 1].func, answers)
    /\ LET func == indicators[wi + 1].func
           get == AsGet(func, answers)
       IN  \E pw \in PowInputs(func) :
               /\ fetched' = Append(fetched, [func |-> func, get |-> get, pow |-> pw])
               /\ display' = Display(Call(func, get, pw))
    /\ answers' = <<>>
    /\ pcWorker' = "after"
    /\ UNCHANGED <<fred, entry, fnName, fnGet, fnPow, fnRet, fnDone, pcMain, row_ids, tree,
                   wi, afterQueue, scheduled, writes, snapIn, snapshot>>

\* after(0, callback) with the main loop running: the callback joins the
\* main loop's queue.
schedule(cb) ==
    /\ afterQueue' = Append(afterQueue, cb)
    /\ scheduled' = Append(scheduled, cb)

\* lambda n=name, d=display: ... : the name and the text are bound when the
\* lambda is made.
callback(name, text) == [n |-> name, d |-> text]

\* The worker calls self.after(0, lambda ...).  The call is passed to the main
\* thread: with the main loop running the callback is scheduled; without it
\* the call waits, and gives up with RuntimeError("main thread is not in main
\* loop"), which nothing in _load_macro_data catches: the thread ends.
after ==
    /\ entry = "dashboard"
    /\ pcWorker = "after"
    /\ \/ /\ pcMain = "mainloop"
          /\ schedule(callback(indicators[wi + 1].name, display))
          /\ pcWorker' = "in_after"
       \/ /\ pcMain # "mainloop"
          /\ pcWorker' = "dead"
          /\ UNCHANGED <<afterQueue, scheduled>>
    /\ UNCHANGED <<fred, entry, fnName, fnGet, fnPow, fnRet, fnDone, pcMain, row_ids, tree,
                   wi, answers, display, fetched, writes, snapIn, snapshot>>

\* self.after returns to the worker, which goes on to the next indicator.
after_returns ==
    /\ entry = "dashboard"
    /\ pcWorker = "in_after"
    /\ wi' = wi + 1
    /\ pcWorker' = (IF wi + 1 = Len(indicators) THEN "done" ELSE "func")
    /\ UNCHANGED <<fred, entry, fnName, fnGet, fnPow, fnRet, fnDone, pcMain, row_ids, tree,
                   answers, display, afterQueue, fetched, scheduled, writes, snapIn,
                   snapshot>>

\* The callback writing the table's first row whatever the name.
item_first_row(cb) ==
    IF cb.n \in DOMAIN row_ids
    THEN /\ tree' = [tree EXCEPT ![1] = <<cb.n, cb.d>>]
         /\ writes' = Append(writes, [thread |-> "main", row |-> 1, op |-> "item"])
    ELSE /\ tree' = tree
         /\ writes' = Append(writes, [thread |-> "main", row |-> 0, op |-> "KeyError"])

\* The scheduled lambda's body: self.tree.item(self.row_ids[n], values=(n, d)).
\* A name missing from row_ids is a KeyError inside the callback: no row is
\* written.
item(cb) ==
    IF cb.n \in DOMAIN row_ids
    THEN /\ tree' = [tree EXCEPT ![row_ids[cb.n]] = <<cb.n, cb.d>>]
         /\ writes' = Append(writes, [thread |-> "main", row |-> row_ids[cb.n], op |-> "item"])
    ELSE /\ tree' = tree
         /\ writes' = Append(writes, [thread |-> "main", row |-> 0, op |-> "KeyError"])

\* The main loop runs the oldest scheduled callback, in the main thread.
run_callback ==
    /\ entry = "dashboard"
    /\ pcMain = "mainloop"
    /\ afterQueue # <<>>
    /\ item(Head(afterQueue))
    /\ afterQueue' = Tail(afterQueue)
    /\ UNCHANGED <<fred, entry, fnName, fnGet, fnPow, fnRet, fnDone, pcMain, row_ids,
                   pcWorker, wi, answers, display, fetched, scheduled, snapIn,
                   snapshot>>

\* --------------------------------------------------------------- snapshot

\* The (key, function) pairs of get_macro_snapshot's dictionary, in the order
\* they are evaluated.
snapshot_entries ==
    << [name |-> "Real GDP Growth (%)", func |-> "real_gdp_growth"],
       [name |-> "Nominal GDP Growth (%)", func |-> "nominal_gdp_growth"],
       [name |-> "Unemployment Rate (%)", func |-> "unemployment_rate"],
       [name |-> "Prime-Age E/P Ratio (%)", func |-> "prime_age_employment_ratio"],
       [name |-> "Payroll Change (k)", func |-> "payroll_employment_change"],
       [name |-> "Core PCE YoY (%)", func |-> "core_pce_yoy"],
       [name |-> "Wage Growth YoY (%)", func |-> "wage_growth_yoy"],
       [name |-> "Yield Curve 3m-10y", func |-> "yield_curve_3m_10y"],
       [name |-> "High-Yield Spread", func |-> "credit_spread_high_yield"],
       [name |-> "Financial Conditions Index", func |-> "financial_conditions_index"] >>

SnapshotKeys == {snapshot_entries[i].name : i \in DOMAIN snapshot_entries}

\* In a dictionary display a repeated key keeps its last value.
LastEntry(key) ==
    CHOOSE i \in DOMAIN snapshot_entries :
        /\ snapshot_entries[i].name = key
        /\ \A j \in DOMAIN snapshot_entries : snapshot_entries[j].name = key => j <= i

\* The answers of the client and the rounding of pow during one call.
Env(get, pw) == [get |-> get, pow |-> pw]

\* Every choice of the client's answers, and of pow's roundings, over the ten
\* calls of one snapshot.
SnapshotInputs ==
    {<<Env(g1, p1), Env(g2, p2), Env(g3, p3), Env(g4, p4), Env(g5, p5),
       Env(g6, p6), Env(g7, p7), Env(g8, p8), Env(g9, p9), Env(g10, p10)>> :
        g1 \in RunInputs(snapshot_entries[1].func),
        p1 \in PowInputs(snapshot_entries[1].func),
        g2 \in RunInputs(snapshot_entries[2].func),
        p2 \in PowInputs(snapshot_entries[2].func),
        g3 \in RunInputs(snapshot_entries[3].func),
        p3 \in PowInputs(snapshot_entries[3].func),
        g4 \in RunInputs(snapshot_entries[4].func),
        p4 \in PowInputs(snapshot_entries[4].func),
        g5 \in RunInputs(snapshot_entries[5].func),
        p5 \in PowInputs(snapshot_entries[5].func),
        g6 \in RunInputs(snapshot_entries[6].func),
        p6 \in PowInputs(snapshot_entries[6].func),
        g7 \in RunInputs(snapshot_entries[7].func),
        p7 \in PowInputs(snapshot_entries[7].func),
        g8 \in RunInputs(snapshot_entries[8].func),
        p8 \in PowInputs(snapshot_entries[8].func),
        g9 \in RunInputs(snapshot_entries[9].func),
        p9 \in PowInputs(snapshot_entries[9].func),
        g10 \in RunInputs(snapshot_entries[10].func),
        p10 \in PowInputs(snapshot_entries[10].func)}

\* get_macro_snapshot: the ten functions are called in order and the
\* dictionary is returned; an exception of any call would leave the function.
get_macro_snapshot ==
    /\ entry = "snapshot"
    /\ snapshot.state = "pending"
    /\ \E gs \in SnapshotInputs :
         LET rs == [i \in DOMAIN snapshot_entries |->
                      Call(snapshot_entries[i].func, gs[i].get, gs[i].pow)]
         IN  /\ snapIn' = gs
             /\ snapshot' =
                  IF \E i \in DOMAIN rs : rs[i].exc
                  THEN [state |-> "raised", dict |-> <<>>]
                  ELSE [state |-> "returned",
                        dict |-> [key \in SnapshotKeys |-> rs[LastEntry(key)].val]]
    /\ UNCHANGED <<fred, entry, fnName, fnGet, fnPow, fnRet, fnDone, pcMain, row_ids, tree,
                   pcWorker, wi, answers, display, afterQueue, fetched, scheduled,
                   writes>>

\* ---------------------------------------------------------- specifications

\* The program started as the dashboard (ui/dashboard.py) or as the snapshot
\* printer (data/macro_data.py); the window's layout is made, the table is
\* still empty and the worker thread not started.
Init ==
    /\ fred \in {"Fred", "None"}
    /\ entry \in {"dashboard", "snapshot"}
    /\ pcMain = (IF entry = "dashboard" THEN "populate_table" ELSE "idle")
    /\ row_ids = <<>>
    /\ tree = <<>>
    /\ pcWorker = "unstarted"
    /\ wi = 0
    /\ answers = <<>>
    /\ display = <<>>
    /\ afterQueue = <<>>
    /\ fetched = <<>>
    /\ scheduled = <<>>
    /\ writes = <<>>
    /\ snapIn = <<>>
    /\ snapshot = [state |-> "pending", dict |-> <<>>]
    /\ FnIdle

Next ==
    \/ populate_table
    \/ load_macro_data_async
    \/ mainloop
    \/ get_series
    \/ call_func
    \/ after
    \/ after_returns
    \/ run_callback
    \/ get_macro_snapshot

Spec == Init /\ [][Next]_vars

\* The dashboard alone, with threads that keep running: the main thread goes
\* on into the main loop and runs the callbacks scheduled, every call of the
\* client is answered, the worker goes on.
LiveInit == Init /\ entry = "dashboard"

LiveNext ==
    \/ populate_table
    \/ load_macro_data_async
    \/ mainloop
    \/ get_series
    \/ call_func
    \/ after
    \/ after_returns
    \/ run_callback

\* The step of the worker's program counter that call_func makes, and only
\* call_func: func() has returned or raised.
func_returns ==
    /\ entry = "dashboard"
    /\ pcWorker = "func"
    /\ ~NeedsFetch(indicators[wi + 1].func, answers)
    /\ pcWorker' = "after"

LiveSpec ==
    /\ LiveInit
    /\ [][LiveNext]_vars
    /\ WF_vars(populate_table)
    /\ WF_vars(load_macro_data_async)
    /\ WF_vars(mainloop)
    /\ WF_vars(get_series)
    /\ WF_pcWorker(func_returns)
    /\ WF_vars(after)
    /\ WF_vars(after_returns)
    /\ WF_vars(run_callback)

\* ------------------------------------------- properties of direct calls

\* The k-th observation from the end of a series (k = 1: the last one).
NthFromLast(s, k) == Float(s[Len(s) - k + 1])

\* The series the client answered for the single series a function reads,
\* with its missing observations dropped.
Kept == dropna(fnGet[SeriesOf(fnName)[1]].s)

FetchedOk == fred = "Fred" /\ fnGet[SeriesOf(fnName)[1]].ok

\* C1: every indicator function returns a finite number or None, never an
\* infinite or not-a-number value, whatever series the client returns.
C1_FiniteOrNone ==
    fnDone => (~fnRet.exc /\ (fnRet.val = None \/ IsFinite(fnRet.val)))

\* C2: no indicator function raises to its caller; whenever the fetch fails
\* (the client raises, a series is empty, an index is out of range, the client
\* is not configured) the function returns None, and for the two fetches of
\* yield_curve_3m_10y a failure of either one yields None.
C2_NeverRaises ==
    fnDone => /\ ~fnRet.exc
              /\ FetchFails(fnName, fnGet) => fnRet.val = None

\* C2 witness: the first fetch of yield_curve_3m_10y succeeded, the second
\* one raised, and the function returned None.
C2_Witness ==
    /\ fnDone
    /\ fred = "Fred"
    /\ fnName = "yield_curve_3m_10y"
    /\ fnGet["DGS10"].ok
    /\ Len(dropna(fnGet["DGS10"].s)) >= 1
    /\ ~fnGet["DTB3"].ok
    /\ fnRet = Return(None)

\* C5: yield_curve_3m_10y returns the latest 3-month yield (DTB3) minus the
\* latest 10-year yield (DGS10) whenever both series have an observation.
C5_ThreeMonthMinusTenYear ==
    (/\ fnDone
     /\ fnName = "yield_curve_3m_10y"
     /\ fred = "Fred"
     /\ fnGet["DTB3"].ok /\ Len(dropna(fnGet["DTB3"].s)) >= 1
     /\ fnGet["DGS10"].ok /\ Len(dropna(fnGet["DGS10"].s)) >= 1)
    => fnRet = Return(FSub(NthFromLast(dropna(fnGet["DTB3"].s), 1),
                           NthFromLast(dropna(fnGet["DGS10"].s), 1)))

\* C8: _safe_yoy, after dropping missing observations, returns None when fewer
\* than 13 observations remain and otherwise (last / 13th-from-last - 1) * 100.
C8_YearOverYear ==
    (fnDone /\ fnName \in YoyFunctions /\ FetchedOk)
    => fnRet = Return(IF Len(Kept) < 13 THEN None
                      ELSE FMul(FSub(FDiv(NthFromLast(Kept, 1), NthFromLast(Kept, 13)),
                                     One), Hundred))

\* C8 witness: a series with a missing observation of which 13 or more
\* remain, whose 13th observation from the end is 3 (a ratio that no float
\* holds exactly), and a finite change other than 0 returned.
C8_Witness ==
    /\ fnDone
    /\ fnName \in YoyFunctions
    /\ FetchedOk
    /\ Len(Kept) >= 13
    /\ Len(Kept) < Len(fnGet[SeriesOf(fnName)[1]].s)
    /\ NthFromLast(Kept, 13) = FromInt(3)
    /\ IsFinite(fnRet.val)
    /\ fnRet.val # Zero(1)

\* Whether the float x is the rational num / den (den > 0) up to the rounding
\* of float arithmetic: |x - num/den| <= 2^-40 * (100 + |num/den|).
Near(x, num, den) ==
    /\ x.k = "num"
    /\ LET p == Max(0, -x.e)
           a == BShl(BMul(x.m, BFromInt(den)), x.e + p)
           b == BShl(BFromInt(Abs(num)), p)
           opposite == x.m # <<>> /\ num # 0 /\ (x.s < 0) # (num < 0)
           d == IF opposite THEN BAdd(a, b)
                ELSE IF BCmp(a, b) >= 0 THEN BSub(a, b) ELSE BSub(b, a)
       IN  BCmp(BShl(d, 40), BShl(BFromInt(Abs(num) + 100 * den), p)) <= 0

\* C9: _safe_qoq_annualized, after dropping missing observations, returns None
\* when fewer than 2 observations remain and otherwise
\* ((last / second-to-last) ^ 4 - 1) * 100: the float returned is that number
\* up to the rounding of float arithmetic (with a zero second-to-last
\* observation the expression has no value but in float arithmetic, inf or
\* nan, see C1).
C9_QuarterAnnualized ==
    (fnDone /\ fnName \in QoqFunctions /\ FetchedOk)
    => IF Len(Kept) < 2 THEN fnRet = Return(None)
       ELSE LET a == Kept[Len(Kept)][1]
                b == Kept[Len(Kept) - 1][1]
            IN  IF b = 0
                THEN fnRet = Return(FMul(FSub(FPow4(FDiv(FromInt(a), FromInt(b)), fnPow), One),
                                         Hundred))
                ELSE /\ ~fnRet.exc
                     /\ fnRet.val # None
                     /\ Near(fnRet.val, 100 * (a ^ 4 - b ^ 4), b ^ 4)

\* C9 witness: two observations remain after a missing one is dropped, the
\* last one is divided by 3 (a ratio that no float holds exactly) and is
\* neither 0 nor 3, pow returns the float above the fourth power, and a
\* finite growth rate is returned.
C9_Witness ==
    /\ fnDone
    /\ fnName \in QoqFunctions
    /\ FetchedOk
    /\ Len(Kept) >= 2
    /\ Len(Kept) < Len(fnGet[SeriesOf(fnName)[1]].s)
    /\ Kept[Len(Kept) - 1][1] = 3
    /\ fnPow = "above"
    /\ IsFinite(fnRet.val)
    /\ fnRet.val \notin {Zero(1), FromInt(-100)}

\* ---------------------------------------------- properties of the runs

\* The outcome of the k-th call the worker made.
Outcome(k) == Call(fetched[k].func, fetched[k].get, fetched[k].pow)

\* A text of digits, a point and exactly two digits, with an optional sign.
IsTwoDecimals(t) ==
    LET body == IF Len(t) > 0 /\ t[1] = "-" THEN SubSeq(t, 2, Len(t)) ELSE t
        m == Len(body)
    IN  /\ m >= 4
        /\ body[m - 2] = "."
        /\ \A i \in 1..m : i # m - 2 => body[i] \in Digits

Value(row) == tree[row][2]

Filled(row) == row \in DOMAIN tree /\ Value(row) # PlaceholderText

\* The worker thread has ended: its loop is through, or an exception left it.
WorkerEnded == pcWorker \in {"done", "dead"}

\* C3: the worker calls the functions one at a time in list order and
\* schedules exactly one update per indicator, carrying that indicator's name
\* and the text of its own result; the worker never writes to the table:
\* every write is made by the main thread.
C3_OrderedHandoff ==
    /\ Len(scheduled) <= Len(fetched)
    /\ \A k \in DOMAIN fetched : fetched[k].func = indicators[k].func
    /\ \A k \in DOMAIN scheduled :
          scheduled[k] = [n |-> indicators[k].name, d |-> Display(Outcome(k))]
    /\ WorkerEnded => (Len(fetched) = Len(indicators) /\ Len(scheduled) = Len(indicators))
    /\ \A k \in DOMAIN writes : writes[k].thread = "main"

\* C4: every absent result (None, or an exception of the function) is shown
\* as "Error" and every present value with exactly two decimals; no other
\* text is written to the Value column by an update.
C4_ErrorOrTwoDecimals ==
    \A k \in DOMAIN scheduled :
        IF Outcome(k).exc \/ Outcome(k).val = None
        THEN scheduled[k].d = ErrorText
        ELSE IsTwoDecimals(scheduled[k].d)

\* C6: failures are independent. Whatever fetches fail, every indicator is
\* fetched and, once the worker has ended and the updates have run, every row
\* shows the text of its own indicator's outcome ("Error" for those that
\* failed to fetch); and get_macro_snapshot returns all ten keys, each with
\* its own function's value, None for those whose fetch failed.
C6_IndependentFailures ==
    /\ (entry = "dashboard" /\ WorkerEnded)
       => /\ Len(fetched) = Len(indicators)
          /\ afterQueue = <<>> =>
                \A i \in DOMAIN indicators :
                    /\ fetched[i].func = indicators[i].func
                    /\ tree[i] = <<indicators[i].name, Display(Outcome(i))>>
                    /\ FetchFails(fetched[i].func, fetched[i].get) => Value(i) = ErrorText
    /\ (entry = "snapshot" /\ snapshot.state # "pending")
       => /\ snapshot.state = "returned"
          /\ DOMAIN snapshot.dict = SnapshotKeys
          /\ Cardinality(DOMAIN snapshot.dict) = 10
          /\ \A i \in DOMAIN snapshot_entries :
                LET f == snapshot_entries[i].func
                    v == snapshot.dict[snapshot_entries[i].name]
                IN  /\ v = Call(f, snapIn[i].get, snapIn[i].pow).val
                    /\ FetchFails(f, snapIn[i].get) => v = None

\* C7: with fetch calls that return and a main loop that keeps running the
\* scheduled callbacks, every row eventually leaves the placeholder "..." for
\* the text made of its result, never shows "..." again, and the rows are
\* filled in list order.
C7_RowsFilledInOrder ==
    /\ \A i \in DOMAIN indicators : <>[](Filled(i))
    /\ [][\A i \in DOMAIN indicators : Filled(i) => Filled(i)']_vars
    /\ [](\A i, j \in DOMAIN indicators : (i < j /\ Filled(j)) => Filled(i))
    /\ [](\A i \in DOMAIN indicators : Filled(i) => Value(i) = Display(Outcome(i)))

\* C10: row_ids has an entry for every indicator before the worker starts and
\* never changes afterwards; every update finds its row, writes that row
\* only, and leaves the Indicator column of every row as it was.
C10_RowMapFrame ==
    /\ [](pcWorker # "unstarted" =>
            (DOMAIN row_ids = Names /\ Len(tree) = Len(indicators)))
    /\ [][pcWorker # "unstarted" => row_ids' = row_ids]_vars
    /\ [](\A k \in DOMAIN writes : writes[k].op # "KeyError")
    /\ [][(pcWorker # "unstarted" /\ tree' # tree) =>
            LET cb == Head(afterQueue)
            IN  /\ afterQueue # <<>>
                /\ cb.n \in DOMAIN row_ids
                /\ \A r \in DOMAIN tree :
                      /\ tree'[r][1] = tree[r][1]
                      /\ r # row_ids[cb.n] => tree'[r] = tree[r]
                /\ tree'[row_ids[cb.n]] = <<cb.n, cb.d>>]_vars

\* C10 witness: the update of the third row has run, the rows after it
\* still show the placeholder.
C10_Witness ==
    /\ pcMain = "mainloop"
    /\ Len(writes) = Len(indicators) + 3
    /\ writes[Len(writes)].op = "item"
    /\ writes[Len(writes)].row = row_ids[indicators[3].name]
    /\ Filled(3)
    /\ ~Filled(4)

====
